---- MODULE Spec2Model ----
(***************************************************************************)
(* Model of jwpure: the constraint DSL and its SQL compiler (query.py)     *)
(* and the slot allocation of Scenario.allocate_slots (analyze.py).        *)
(*                                                                         *)
(* Two specifications share the module:                                    *)
(*   SpecCompile  builds constraint trees with the DSL operators and       *)
(*                compiles them with where_clause / sql_from_constraint;   *)
(*   Spec         loads a slot table and runs allocate_slots passes.       *)
(***************************************************************************)
EXTENDS Integers, Sequences, FiniteSets, TLC

VARIABLES
    lhs,              \* SpecCompile: a constraint tree built with the DSL
    rhs,              \* SpecCompile: a second constraint tree
    compiled,         \* SpecCompile: record of the last where_clause call
    slot,             \* table slot: sequence of rows, index = slot_id
    pure_subset,      \* Scenario.pure_subset, the subset counter
    config,           \* table config (set of rows) of the last pass
    visit,            \* table visit (set of rows) of the last pass
    subset,           \* rows of table subset, in ORDER BY slot_id order
    sequence_numbers, \* rows of table sequence_numbers, in insertion order
    call              \* arguments and outcome of the last allocate_slots call

vars == <<lhs, rhs, compiled, slot, pure_subset, config, visit, subset,
          sequence_numbers, call>>

compileVars == <<lhs, rhs, compiled>>
allocVars == <<slot, pure_subset, config, visit, subset, sequence_numbers, call>>

(***************************************************************************)
(* Bounds of the model.                                                    *)
(***************************************************************************)
MaxOps == 1      \* logical operators applied while building lhs and rhs
NSlots == 3      \* rows of the loaded slot table
MaxPass == 2     \* allocate_slots calls per run
MaxRows == 3     \* rows passed to _sequence_numbers in SpecAssign

(***************************************************************************)
(* Literals.  repr() of a Python int is its decimal text, repr() of a str  *)
(* is the text in single quotes.                                           *)
(***************************************************************************)
IntLit(n) == [t |-> "int", n |-> n]
StrLit(s) == [t |-> "str", s |-> s]

repr(v) == IF v.t = "int" THEN ToString(v.n) ELSE "'" \o v.s \o "'"

RECURSIVE join_repr(_)
join_repr(vs) ==
    IF Len(vs) = 0 THEN ""
    ELSE IF Len(vs) = 1 THEN repr(vs[1])
    ELSE repr(vs[1]) \o ", " \o join_repr(Tail(vs))

(***************************************************************************)
(* Predicate classes and the DatabaseColumn operators that build them.     *)
(***************************************************************************)
_BinaryPredicate(colname, operator, value) ==
    [kind |-> "binary", colname |-> colname, operator |-> operator, value |-> value]

_TernaryPredicate(colname, low, high) ==
    [kind |-> "ternary", colname |-> colname, low |-> low, high |-> high]

_UnaryPredicate(raw_sql) == [kind |-> "unary", raw_sql |-> raw_sql]

_LogicalPredicate(op, args) == [kind |-> "logical", op |-> op, args |-> args]

\* DatabaseColumn.name for a column of a named table
DatabaseColumn(tablename, colname) ==
    IF tablename # "" THEN tablename \o "." \o colname ELSE colname

col_eq(name, v) == _BinaryPredicate(name, "=", v)
col_ne(name, v) == _BinaryPredicate(name, "!=", v)
col_lt(name, v) == _BinaryPredicate(name, "<", v)
col_le(name, v) == _BinaryPredicate(name, "<=", v)
col_gt(name, v) == _BinaryPredicate(name, ">", v)
col_ge(name, v) == _BinaryPredicate(name, ">=", v)
isin(name, values) == _BinaryPredicate(name, "IN", values)
between(name, low, high) == _TernaryPredicate(name, low, high)
is_null(name) == _UnaryPredicate(name \o " IS NULL")
is_not_null(name) == _UnaryPredicate(name \o " IS NOT NULL")

__and__(a, b) == _LogicalPredicate("AND", <<a, b>>)
__or__(a, b) == _LogicalPredicate("OR", <<a, b>>)
__invert__(a) == _LogicalPredicate("NOT", <<a>>)

\* an object that is none of the four predicate classes
NotAPredicate == [kind |-> "object"]

(***************************************************************************)
(* sql_from_constraint.  only_table = "" stands for None (both are falsy). *)
(***************************************************************************)
startswith(s, prefix) ==
    Len(s) >= Len(prefix) /\ SubSeq(s, 1, Len(prefix)) = prefix

\* the scope test of the three leaf branches
out_of_scope(name, only_table) ==
    only_table # "" /\ ~startswith(name, only_table \o ".")

sql_binary(c, only_table) ==
    IF out_of_scope(c.colname, only_table) THEN ""
    ELSE LET vstr == IF c.operator = "IN"
                     THEN "(" \o join_repr(c.value) \o ")"
                     ELSE repr(c.value)
         IN c.colname \o " " \o c.operator \o " " \o vstr

sql_ternary(c, only_table) ==
    IF out_of_scope(c.colname, only_table) THEN ""
    ELSE c.colname \o " BETWEEN " \o repr(c.low) \o " AND " \o repr(c.high)

\* sql_unary without the scope test
sql_unary_unscoped(c, only_table) == c.raw_sql

sql_unary(c, only_table) ==
    IF out_of_scope(c.raw_sql, only_table) THEN "" ELSE c.raw_sql

\* sql_not that wraps an empty clause too
sql_not_always(sql) == "(NOT " \o sql \o ")"

sql_not(sql) == IF sql # "" THEN "(NOT " \o sql \o ")" ELSE ""

\* sql_logical that drops the clause when one side is out of scope
sql_logical_both_or_nothing(op, left, right) ==
    IF left # "" /\ right # ""
    THEN "(" \o left \o " " \o op \o " " \o right \o ")"
    ELSE ""

sql_logical(op, left, right) ==
    IF left # "" /\ right # ""
    THEN "(" \o left \o " " \o op \o " " \o right \o ")"
    ELSE IF left # "" THEN left ELSE right

RECURSIVE sql_from_constraint(_, _)
sql_from_constraint(c, only_table) ==
    CASE c.kind = "none" -> ""
      [] c.kind = "binary" -> sql_binary(c, only_table)
      [] c.kind = "ternary" -> sql_ternary(c, only_table)
      [] c.kind = "unary" -> sql_unary(c, only_table)
      [] c.kind = "logical" ->
            IF c.op = "NOT"
            THEN sql_not(sql_from_constraint(c.args[1], only_table))
            ELSE sql_logical(c.op,
                             sql_from_constraint(c.args[1], only_table),
                             sql_from_constraint(c.args[2], only_table))
      [] OTHER -> ""

\* raises_TypeError that inspects the root node only
raises_TypeError_root_only(c) ==
    c.kind \notin {"none", "binary", "ternary", "unary", "logical"}

\* TRUE iff sql_from_constraint raises TypeError: some node it visits is of
\* no predicate class (every logical node compiles all its children)
RECURSIVE raises_TypeError(_)
raises_TypeError(c) ==
    CASE c.kind \in {"none", "binary", "ternary", "unary"} -> FALSE
      [] c.kind = "logical" ->
            \E i \in 1..Len(c.args) : raises_TypeError(c.args[i])
      [] OTHER -> TRUE

where_clause(c, only_table) ==
    LET sql == sql_from_constraint(c, only_table)
    IN IF sql # "" THEN "WHERE " \o sql ELSE ""


(***************************************************************************)
(* SpecCompile: constraint trees are built bottom-up from leaf predicates  *)
(* with &, | and ~, then handed to where_clause under a scope.             *)
(***************************************************************************)
Tables == {"slot", "config", "visit"}
Scopes == Tables \cup {""}

Leaves ==
    { col_ne(DatabaseColumn("slot", "inst"), StrLit("NIRCam")),
      col_ge(DatabaseColumn("config", "configdur"), IntLit(600)),
      isin(DatabaseColumn("config", "nslot"), <<IntLit(2), IntLit(3)>>),
      between(DatabaseColumn("visit", "nconfig"), IntLit(1), IntLit(2)),
      is_null(DatabaseColumn("slot", "ra")) }

RECURSIVE nops(_)
nops(c) ==
    IF c.kind # "logical" THEN 0
    ELSE IF Len(c.args) = 1 THEN 1 + nops(c.args[1])
    ELSE 1 + nops(c.args[1]) + nops(c.args[2])

NoCompile == [op |-> "none"]

Compiled(op, tree, only_table) ==
    [op |-> op, only_table |-> only_table,
     sql |-> sql_from_constraint(tree, only_table),
     where |-> where_clause(tree, only_table)]

CanGrow == nops(lhs) + nops(rhs) < MaxOps

InvertLhs ==
    /\ CanGrow
    /\ lhs' = __invert__(lhs)
    /\ compiled' = NoCompile
    /\ UNCHANGED <<rhs, allocVars>>

InvertRhs ==
    /\ CanGrow
    /\ rhs' = __invert__(rhs)
    /\ compiled' = NoCompile
    /\ UNCHANGED <<lhs, allocVars>>

AndLhs ==
    /\ CanGrow
    /\ \E leaf \in Leaves : lhs' \in {__and__(lhs, leaf), __and__(leaf, lhs)}
    /\ compiled' = NoCompile
    /\ UNCHANGED <<rhs, allocVars>>

AndRhs ==
    /\ CanGrow
    /\ \E leaf \in Leaves : rhs' \in {__and__(rhs, leaf), __and__(leaf, rhs)}
    /\ compiled' = NoCompile
    /\ UNCHANGED <<lhs, allocVars>>

OrLhs ==
    /\ CanGrow
    /\ \E leaf \in Leaves : lhs' \in {__or__(lhs, leaf), __or__(leaf, lhs)}
    /\ compiled' = NoCompile
    /\ UNCHANGED <<rhs, allocVars>>

OrRhs ==
    /\ CanGrow
    /\ \E leaf \in Leaves : rhs' \in {__or__(rhs, leaf), __or__(leaf, rhs)}
    /\ compiled' = NoCompile
    /\ UNCHANGED <<lhs, allocVars>>

\* where_clause(lhs & rhs, only_table)
CompileAnd ==
    /\ \E t \in Scopes : compiled' = Compiled("AND", __and__(lhs, rhs), t)
    /\ UNCHANGED <<lhs, rhs, allocVars>>

\* where_clause(lhs | rhs, only_table)
CompileOr ==
    /\ \E t \in Scopes : compiled' = Compiled("OR", __or__(lhs, rhs), t)
    /\ UNCHANGED <<lhs, rhs, allocVars>>

\* where_clause(~lhs, only_table)
CompileNot ==
    /\ \E t \in Scopes : compiled' = Compiled("NOT", __invert__(lhs), t)
    /\ UNCHANGED <<lhs, rhs, allocVars>>

AllocIdle ==
    /\ slot = <<>>
    /\ pure_subset = 0
    /\ config = {}
    /\ visit = {}
    /\ subset = <<>>
    /\ sequence_numbers = <<>>
    /\ call = [status |-> "none"]

InitCompile ==
    /\ lhs \in Leaves
    /\ rhs \in Leaves
    /\ compiled = NoCompile
    /\ AllocIdle

NextCompile ==
    \/ InvertLhs
    \/ InvertRhs
    \/ AndLhs
    \/ AndRhs
    \/ OrLhs
    \/ OrRhs
    \/ CompileAnd
    \/ CompileOr
    \/ CompileNot

SpecCompile == InitCompile /\ [][NextCompile]_vars

(***************************************************************************)
(* The relational store: how SQLite evaluates a compiled clause on a row.  *)
(* A row is a function from qualified column names to integers (no column  *)
(* of the modelled tables holds NULL).  The clause is the text returned by *)
(* sql_from_constraint, whose parentheses follow the tree, so the value of *)
(* the clause is computed along the tree: a child that compiled to ''      *)
(* contributes nothing.                                                    *)
(***************************************************************************)
endswith(s, suffix) ==
    Len(s) >= Len(suffix) /\ SubSeq(s, Len(s) - Len(suffix) + 1, Len(s)) = suffix

sql_compare(x, operator, value) ==
    CASE operator = "=" -> x = value.n
      [] operator = "!=" -> x # value.n
      [] operator = "<" -> x < value.n
      [] operator = "<=" -> x <= value.n
      [] operator = ">" -> x > value.n
      [] operator = ">=" -> x >= value.n
      [] operator = "IN" -> \E i \in 1..Len(value) : x = value[i].n

\* The clause as SQLite parses it: the tree of the predicates that the text
\* returned by sql_from_constraint(c, only_table) contains ('' parses to none).
RECURSIVE parse_clause(_, _)
parse_clause(c, only_table) ==
    IF sql_from_constraint(c, only_table) = "" THEN [kind |-> "none"]
    ELSE IF c.kind # "logical" THEN c
    ELSE IF c.op = "NOT" THEN __invert__(parse_clause(c.args[1], only_table))
    ELSE IF sql_from_constraint(c.args[1], only_table) = ""
         THEN parse_clause(c.args[2], only_table)
    ELSE IF sql_from_constraint(c.args[2], only_table) = ""
         THEN parse_clause(c.args[1], only_table)
    ELSE _LogicalPredicate(c.op, <<parse_clause(c.args[1], only_table),
                                   parse_clause(c.args[2], only_table)>>)

\* value of a parsed clause on a row
RECURSIVE sql_holds(_, _)
sql_holds(c, row) ==
    CASE c.kind = "binary" -> sql_compare(row[c.colname], c.operator, c.value)
      [] c.kind = "ternary" ->
            c.low.n <= row[c.colname] /\ row[c.colname] <= c.high.n
      [] c.kind = "unary" -> endswith(c.raw_sql, " IS NOT NULL")
      [] c.kind = "logical" ->
            IF c.op = "NOT" THEN ~sql_holds(c.args[1], row)
            ELSE IF c.op = "AND"
                 THEN sql_holds(c.args[1], row) /\ sql_holds(c.args[2], row)
                 ELSE sql_holds(c.args[1], row) \/ sql_holds(c.args[2], row)

\* a query with this parsed WHERE clause keeps the row (no clause: every row)
where_holds(clause, row) == clause.kind = "none" \/ sql_holds(clause, row)

(***************************************************************************)
(* Tables of allocate_slots.                                               *)
(***************************************************************************)
DEFAULT_MAX == 999

slot_columns(s) ==
    [n \in {"slot.slotdur", "slot.pure_subset"} |->
        IF n = "slot.slotdur" THEN s.slotdur ELSE s.pure_subset]

config_columns(cr) ==
    [n \in {"config.nslot", "config.configdur"} |->
        IF n = "config.nslot" THEN cr.nslot ELSE cr.configdur]

joint_columns(s, cr, vr) ==
    [n \in {"slot.slotdur", "slot.pure_subset", "config.nslot",
            "config.configdur", "visit.nconfig"} |->
        CASE n = "slot.slotdur" -> s.slotdur
          [] n = "slot.pure_subset" -> s.pure_subset
          [] n = "config.nslot" -> cr.nslot
          [] n = "config.configdur" -> cr.configdur
          [] n = "visit.nconfig" -> vr.nconfig]

\* available = (slot.pure_subset == 0)
available == col_eq(DatabaseColumn("slot", "pure_subset"), IntLit(0))

RECURSIVE sum_slotdur(_, _)
sum_slotdur(tbl, ids) ==
    IF ids = {} THEN 0
    ELSE LET i == CHOOSE j \in ids : TRUE
         IN tbl[i].slotdur + sum_slotdur(tbl, ids \ {i})

\* CREATE TABLE config AS SELECT ... FROM slot {where_slot} GROUP BY ...
create_config(tbl, where_slot) ==
    LET kept == {i \in DOMAIN tbl : where_holds(where_slot, slot_columns(tbl[i]))}
        group(i) == {j \in kept : /\ tbl[j].visit_id = tbl[i].visit_id
                                  /\ tbl[j].config_id = tbl[i].config_id}
    IN {[visit_id |-> tbl[i].visit_id, config_id |-> tbl[i].config_id,
         nslot |-> Cardinality(group(i)),
         configdur |-> sum_slotdur(tbl, group(i))] : i \in kept}

\* CREATE TABLE visit AS SELECT ... FROM config {where_config} GROUP BY visit_id
create_visit(cfg, where_config) ==
    LET kept == {cr \in cfg : where_holds(where_config, config_columns(cr))}
    IN {[visit_id |-> cr.visit_id,
         nconfig |-> Cardinality({x \in kept : x.visit_id = cr.visit_id})] :
            cr \in kept}

\* ON condition of JOIN config
join_config(s, cr) == cr.config_id = s.config_id

\* ON condition of JOIN visit
join_visit(s, vr) == vr.visit_id = s.visit_id

\* number of rows of table subset with slot_id = i
subset_count(tbl, cfg, vis, where_joint, i) ==
    Cardinality({p \in cfg \X vis :
        /\ join_config(tbl[i], p[1])
        /\ join_visit(tbl[i], p[2])
        /\ where_holds(where_joint, joint_columns(tbl[i], p[1], p[2]))})

RECURSIVE repeat(_, _)
repeat(row, n) == IF n = 0 THEN <<>> ELSE <<row>> \o repeat(row, n - 1)

\* CREATE TABLE subset ... ; SELECT visit_id, config_id, slot_id FROM subset
\* ORDER BY slot_id.  Rows of one slot_id are equal triples.
RECURSIVE select_subset(_, _, _, _, _)
select_subset(tbl, cfg, vis, where_joint, i) ==
    IF i > Len(tbl) THEN <<>>
    ELSE repeat([visit_id |-> tbl[i].visit_id, config_id |-> tbl[i].config_id,
                 slot_id |-> i],
                subset_count(tbl, cfg, vis, where_joint, i))
         \o select_subset(tbl, cfg, vis, where_joint, i + 1)

(***************************************************************************)
(* Scenario._sequence_numbers.                                             *)
(***************************************************************************)
\* seq_start with the visit counter already at 1
seq_start_visit_one ==
    [prev_visit_id |-> "None", prev_config_id |-> "None",
     pure_visit |-> 1, pure_config |-> 0, pure_slot |-> 0]

\* state before the first row: no previous ids, all counters 0
seq_start ==
    [prev_visit_id |-> "None", prev_config_id |-> "None",
     pure_visit |-> 0, pure_config |-> 0, pure_slot |-> 0]

\* seq_counters that restarts pure_slot at 1 on every row
seq_counters_slot_one(st, row) ==
    [prev_visit_id |-> row.visit_id, prev_config_id |-> row.config_id,
     pure_visit |-> IF row.visit_id # st.prev_visit_id
                    THEN st.pure_visit + 1 ELSE st.pure_visit,
     pure_config |-> IF row.visit_id # st.prev_visit_id THEN 1
                     ELSE IF row.config_id # st.prev_config_id
                     THEN st.pure_config + 1 ELSE st.pure_config,
     pure_slot |-> 1]

\* seq_counters that does not reset pure_slot at a new config
seq_counters_no_slot_reset(st, row) ==
    IF row.visit_id # st.prev_visit_id
    THEN [prev_visit_id |-> row.visit_id, prev_config_id |-> row.config_id,
          pure_visit |-> st.pure_visit + 1, pure_config |-> 1, pure_slot |-> 1]
    ELSE [prev_visit_id |-> row.visit_id, prev_config_id |-> row.config_id,
          pure_visit |-> st.pure_visit,
          pure_config |-> IF row.config_id # st.prev_config_id
                          THEN st.pure_config + 1 ELSE st.pure_config,
          pure_slot |-> st.pure_slot + 1]

\* the counter updates for one row, and the trailing prev_* assignments
seq_counters(st, row) ==
    IF row.visit_id # st.prev_visit_id
    THEN [prev_visit_id |-> row.visit_id, prev_config_id |-> row.config_id,
          pure_visit |-> st.pure_visit + 1, pure_config |-> 1, pure_slot |-> 1]
    ELSE IF row.config_id # st.prev_config_id
    THEN [prev_visit_id |-> row.visit_id, prev_config_id |-> row.config_id,
          pure_visit |-> st.pure_visit, pure_config |-> st.pure_config + 1,
          pure_slot |-> 1]
    ELSE [prev_visit_id |-> row.visit_id, prev_config_id |-> row.config_id,
          pure_visit |-> st.pure_visit, pure_config |-> st.pure_config,
          pure_slot |-> st.pure_slot + 1]

\* seq_append whose truncated tuple zeroes pure_subset only
seq_append_keeps_counters(index, st, row, maxslot, maxconfig) ==
    [visit_id |-> row.visit_id, config_id |-> row.config_id,
     slot_id |-> row.slot_id,
     pure_subset |-> IF st.pure_config > maxconfig \/ st.pure_slot > maxslot
                     THEN 0 ELSE index,
     pure_visit |-> st.pure_visit,
     pure_config |-> st.pure_config, pure_slot |-> st.pure_slot]

\* seq_append whose truncated tuple keeps the subset index
seq_append_stamps_truncated(index, st, row, maxslot, maxconfig) ==
    [visit_id |-> row.visit_id, config_id |-> row.config_id,
     slot_id |-> row.slot_id,
     pure_subset |-> index,
     pure_visit |-> IF st.pure_config > maxconfig \/ st.pure_slot > maxslot
                    THEN 0 ELSE st.pure_visit,
     pure_config |-> IF st.pure_config > maxconfig \/ st.pure_slot > maxslot
                     THEN 0 ELSE st.pure_config,
     pure_slot |-> IF st.pure_config > maxconfig \/ st.pure_slot > maxslot
                   THEN 0 ELSE st.pure_slot]

\* the tuple appended for one row
seq_append(index, st, row, maxslot, maxconfig) ==
    IF st.pure_config > maxconfig \/ st.pure_slot > maxslot
    THEN [visit_id |-> row.visit_id, config_id |-> row.config_id,
          slot_id |-> row.slot_id,
          pure_subset |-> 0, pure_visit |-> 0, pure_config |-> 0, pure_slot |-> 0]
    ELSE [visit_id |-> row.visit_id, config_id |-> row.config_id,
          slot_id |-> row.slot_id,
          pure_subset |-> index, pure_visit |-> st.pure_visit,
          pure_config |-> st.pure_config, pure_slot |-> st.pure_slot]

\* seq_loop that restarts the slot counter after a row past the slot cap
RECURSIVE seq_loop_restart(_, _, _, _, _, _)
seq_loop_restart(index, rows, i, st, maxslot, maxconfig) ==
    IF i > Len(rows) THEN <<>>
    ELSE LET nxt == seq_counters(st, rows[i])
         IN <<seq_append(index, nxt, rows[i], maxslot, maxconfig)>>
            \o seq_loop_restart(index, rows, i + 1,
                    IF nxt.pure_slot > maxslot
                    THEN [nxt EXCEPT !.pure_slot = 0] ELSE nxt,
                    maxslot, maxconfig)

RECURSIVE seq_loop(_, _, _, _, _, _)
seq_loop(index, rows, i, st, maxslot, maxconfig) ==
    IF i > Len(rows) THEN <<>>
    ELSE LET nxt == seq_counters(st, rows[i])
         IN <<seq_append(index, nxt, rows[i], maxslot, maxconfig)>>
            \o seq_loop(index, rows, i + 1, nxt, maxslot, maxconfig)

\* _sequence_numbers that stamps every pass with index 1
_sequence_numbers_first_index(index, rows, maxslot, maxconfig) ==
    seq_loop(1, rows, 1, seq_start, maxslot, maxconfig)

_sequence_numbers(index, rows, maxslot, maxconfig) ==
    seq_loop(index, rows, 1, seq_start, maxslot, maxconfig)

(***************************************************************************)
(* UPDATE slot SET ... WHERE slot_id IN (SELECT slot_id FROM subset).      *)
(* Each scalar subquery yields the first row of sequence_numbers with the  *)
(* slot's id.                                                              *)
(***************************************************************************)
in_subset(sub, i) == \E k \in 1..Len(sub) : sub[k].slot_id = i

first_row(sn, i) ==
    sn[CHOOSE k \in 1..Len(sn) :
          /\ sn[k].slot_id = i
          /\ \A j \in 1..(k - 1) : sn[j].slot_id # i]

\* update_slot without the WHERE clause: a slot with no row in
\* sequence_numbers gets the empty subquery result
update_slot_every_row(tbl, sub, sn) ==
    [i \in DOMAIN tbl |->
        IF in_subset(sub, i)
        THEN [tbl[i] EXCEPT !.pure_subset = first_row(sn, i).pure_subset,
                            !.pure_visit = first_row(sn, i).pure_visit,
                            !.pure_config = first_row(sn, i).pure_config,
                            !.pure_slot = first_row(sn, i).pure_slot]
        ELSE [tbl[i] EXCEPT !.pure_subset = 0, !.pure_visit = 0,
                            !.pure_config = 0, !.pure_slot = 0]]

update_slot(tbl, sub, sn) ==
    [i \in DOMAIN tbl |->
        IF in_subset(sub, i)
        THEN [tbl[i] EXCEPT !.pure_subset = first_row(sn, i).pure_subset,
                            !.pure_visit = first_row(sn, i).pure_visit,
                            !.pure_config = first_row(sn, i).pure_config,
                            !.pure_slot = first_row(sn, i).pure_slot]
        ELSE tbl[i]]

(***************************************************************************)
(* Scenario.__init__ and Scenario.allocate_slots.                          *)
(***************************************************************************)
VisitIds == {"V1", "V2"}
ConfigIds == {"C1", "C2"}
SlotDurs == {1, 2}
\* (maxslot, maxconfig) pairs passed by the caller
Caps == {<<1, DEFAULT_MAX>>, <<2, DEFAULT_MAX>>, <<2, 1>>}

\* a row as loaded by __init__: the four allocation columns are 0
loaded(v, c, d) ==
    [visit_id |-> v, config_id |-> c, slotdur |-> d,
     pure_subset |-> 0, pure_visit |-> 0, pure_config |-> 0, pure_slot |-> 0]

\* one visit V1 with config C1 = {1,2,3} and config C2 = {4,5,6}
RoundTripTable ==
    <<loaded("V1", "C1", 1), loaded("V1", "C1", 1), loaded("V1", "C1", 1),
      loaded("V1", "C2", 1), loaded("V1", "C2", 1), loaded("V1", "C2", 1)>>

\* Slot tables up to renaming of visit and config ids (the program only tests
\* ids for equality): slot 1 is in visit V1, config C1.
SlotTables ==
    {t \in [1..NSlots -> {loaded(v, c, d) :
                              v \in VisitIds, c \in ConfigIds, d \in SlotDurs}] :
        t[1].visit_id = "V1" /\ t[1].config_id = "C1"}
        \cup {RoundTripTable}

slotdur == DatabaseColumn("slot", "slotdur")
nslot == DatabaseColumn("config", "nslot")
configdur == DatabaseColumn("config", "configdur")
nconfig == DatabaseColumn("visit", "nconfig")

AlwaysTrue == col_ge(slotdur, IntLit(0))
MatchesNothing == col_gt(slotdur, IntLit(2))

Constraints ==
    { AlwaysTrue,
      MatchesNothing,
      col_ge(configdur, IntLit(2)),
      __and__(__and__(between(slotdur, IntLit(2), IntLit(2)),
                      col_ge(nslot, IntLit(1))),
              col_ge(nconfig, IntLit(2))),
      __or__(__invert__(col_eq(nslot, IntLit(1))),
             isin(slotdur, <<IntLit(2)>>)) }

\* a constraint with an operand that is no predicate
Malformed == __and__(AlwaysTrue, NotAPredicate)

\* allocate_slots whose UPDATE may scan sequence_numbers in either direction
allocate_slots_any_row(constraint, maxslot, maxconfig) ==
    /\ pure_subset < MaxPass
    /\ pure_subset' = pure_subset + 1
    /\ IF raises_TypeError(__and__(constraint, available))
       THEN /\ call' = [status |-> "TypeError", constraint |-> constraint,
                        maxslot |-> maxslot, maxconfig |-> maxconfig]
            /\ UNCHANGED <<slot, config, visit, subset, sequence_numbers>>
       ELSE \E where_slot \in {parse_clause(__and__(constraint, available), "slot")} :
            \E cfg \in {create_config(slot, where_slot)} :
            \E where_config \in {parse_clause(constraint, "config")} :
            \E vis \in {create_visit(cfg, where_config)} :
            \E where_joint \in {parse_clause(constraint, "")} :
            \E sub \in {select_subset(slot, cfg, vis, where_joint, 1)} :
            \E sn \in {_sequence_numbers(pure_subset + 1, sub, maxslot, maxconfig)} :
            \E scan \in {sn, [k \in 1..Len(sn) |-> sn[Len(sn) + 1 - k]]} :
               /\ config' = cfg
               /\ visit' = vis
               /\ subset' = sub
               /\ sequence_numbers' = sn
               /\ slot' = update_slot(slot, sub, scan)
               /\ call' = [status |-> "done", constraint |-> constraint,
                           maxslot |-> maxslot, maxconfig |-> maxconfig]
    /\ UNCHANGED compileVars

allocate_slots(constraint, maxslot, maxconfig) ==
    /\ pure_subset < MaxPass
    /\ pure_subset' = pure_subset + 1
    /\ IF raises_TypeError(__and__(constraint, available))
       THEN /\ call' = [status |-> "TypeError", constraint |-> constraint,
                        maxslot |-> maxslot, maxconfig |-> maxconfig]
            /\ UNCHANGED <<slot, config, visit, subset, sequence_numbers>>
       ELSE \E where_slot \in {parse_clause(__and__(constraint, available), "slot")} :
            \E cfg \in {create_config(slot, where_slot)} :
            \E where_config \in {parse_clause(constraint, "config")} :
            \E vis \in {create_visit(cfg, where_config)} :
            \E where_joint \in {parse_clause(constraint, "")} :
            \E sub \in {select_subset(slot, cfg, vis, where_joint, 1)} :
            \E sn \in {_sequence_numbers(pure_subset + 1, sub, maxslot, maxconfig)} :
               /\ config' = cfg
               /\ visit' = vis
               /\ subset' = sub
               /\ sequence_numbers' = sn
               /\ slot' = update_slot(slot, sub, sn)
               /\ call' = [status |-> "done", constraint |-> constraint,
                           maxslot |-> maxslot, maxconfig |-> maxconfig]
    /\ UNCHANGED compileVars

\* save: the rows of slot with pure_subset > 0, ORDER BY slot_id
RECURSIVE save(_, _)
save(tbl, i) ==
    IF i > Len(tbl) THEN <<>>
    ELSE (IF tbl[i].pure_subset > 0
          THEN <<[slot_id |-> i, row |-> tbl[i]]>> ELSE <<>>)
         \o save(tbl, i + 1)

CompileIdle ==
    /\ lhs = [kind |-> "none"]
    /\ rhs = [kind |-> "none"]
    /\ compiled = NoCompile

Init ==
    /\ slot \in SlotTables
    /\ pure_subset = 0
    /\ config = {}
    /\ visit = {}
    /\ subset = <<>>
    /\ sequence_numbers = <<>>
    /\ call = [status |-> "none"]
    /\ CompileIdle

Next ==
    \/ \E constraint \in Constraints, cap \in Caps :
          allocate_slots(constraint, cap[1], cap[2])
    \/ allocate_slots(Malformed, DEFAULT_MAX, DEFAULT_MAX)

Spec == Init /\ [][Next]_vars

(***************************************************************************)
(* SpecAssign: _sequence_numbers applied to every ordered list of rows     *)
(* (visit_id, config_id, slot_id), whether or not a subset can yield it.   *)
(* subset holds the rows, sequence_numbers the list returned, call the     *)
(* caps, pure_subset the value of self.pure_subset.                        *)
(***************************************************************************)
RowSlotIds == {7, 3}
AssignCaps == {1, 2, DEFAULT_MAX} \X {1, 2, DEFAULT_MAX}

\* one more (visit_id, config_id, slot_id) row in the list
FetchRow ==
    /\ call.status = "none"
    /\ Len(subset) < MaxRows
    /\ \E v \in VisitIds, c \in ConfigIds, i \in RowSlotIds :
          subset' = Append(subset,
                           [visit_id |-> v, config_id |-> c, slot_id |-> i])
    /\ UNCHANGED <<slot, pure_subset, config, visit, sequence_numbers, call,
                   compileVars>>

CallSequenceNumbers ==
    /\ call.status = "none"
    /\ \E cap \in AssignCaps :
          /\ sequence_numbers' =
                _sequence_numbers(pure_subset, subset, cap[1], cap[2])
          /\ call' = [status |-> "assigned",
                      maxslot |-> cap[1], maxconfig |-> cap[2]]
    /\ UNCHANGED <<slot, pure_subset, config, visit, subset, compileVars>>

InitAssign ==
    /\ slot = <<>>
    /\ pure_subset \in 1..MaxPass
    /\ config = {}
    /\ visit = {}
    /\ subset = <<>>
    /\ sequence_numbers = <<>>
    /\ call = [status |-> "none"]
    /\ CompileIdle

NextAssign ==
    \/ FetchRow
    \/ CallSequenceNumbers

SpecAssign == InitAssign /\ [][NextAssign]_vars

(***************************************************************************)
(* Properties.                                                             *)
(***************************************************************************)
Done == call.status = "done"

\* slot i carries the index of the last pass
stamped(i) == slot[i].pure_subset = pure_subset

allocation(s) == <<s.pure_subset, s.pure_visit, s.pure_config, s.pure_slot>>

\* C1: once a slot has pure_subset > 0, no later pass changes its
\* pure_subset, pure_visit, pure_config or pure_slot.
C1_MonotonicClaiming ==
    [][\A i \in DOMAIN slot :
          slot[i].pure_subset > 0 => allocation(slot'[i]) = allocation(slot[i])]_vars

\* C2: after a pass, at most maxslot slots stamped with its index share one
\* (visit_id, config_id), and the stamped slots of one visit_id have at most
\* maxconfig distinct config_ids.
C2_CapacityCaps ==
    Done =>
        \A i \in DOMAIN slot :
            stamped(i) =>
                /\ Cardinality({j \in DOMAIN slot :
                        /\ stamped(j)
                        /\ slot[j].visit_id = slot[i].visit_id
                        /\ slot[j].config_id = slot[i].config_id}) <= call.maxslot
                /\ Cardinality({slot[j].config_id : j \in
                        {k \in DOMAIN slot :
                            stamped(k) /\ slot[k].visit_id = slot[i].visit_id}})
                       <= call.maxconfig

\* C3: every slot stamped by the last pass satisfies the pass's constraint
\* jointly with the config row of its own (visit_id, config_id) and the
\* visit row of its own visit_id.
C3_ClaimedObeyConstraint ==
    Done =>
        \A i \in DOMAIN slot :
            stamped(i) =>
                \E cr \in config, vr \in visit :
                    /\ cr.visit_id = slot[i].visit_id
                    /\ cr.config_id = slot[i].config_id
                    /\ vr.visit_id = slot[i].visit_id
                    /\ where_holds(parse_clause(call.constraint, ""),
                                   joint_columns(slot[i], cr, vr))

\* the set S is {1, ..., k} for some k <= cap
dense(S, cap) == S = 1..Cardinality(S) /\ Cardinality(S) <= cap

kept_rows == {k \in 1..Len(sequence_numbers) : sequence_numbers[k].pure_subset > 0}

\* C4: among the assignment rows of a pass, the pure_config values of the
\* non-truncated rows of one visit_id are exactly 1..k with k <= maxconfig,
\* and the pure_slot values of the non-truncated rows of one
\* (visit_id, config_id) are exactly 1..j with j <= maxslot.
C4_DenseNumbering ==
    Done =>
        \A r \in kept_rows :
            /\ dense({sequence_numbers[k].pure_config : k \in
                        {x \in kept_rows : sequence_numbers[x].visit_id
                                              = sequence_numbers[r].visit_id}},
                     call.maxconfig)
            /\ dense({sequence_numbers[k].pure_slot : k \in
                        {x \in kept_rows :
                            /\ sequence_numbers[x].visit_id
                                  = sequence_numbers[r].visit_id
                            /\ sequence_numbers[x].config_id
                                  = sequence_numbers[r].config_id}},
                     call.maxslot)

\* a pass numbered a second config and a second slot and truncated a row
C4_Witness ==
    /\ Done
    /\ \E k \in kept_rows : sequence_numbers[k].pure_config = 2
    /\ \E k \in kept_rows : sequence_numbers[k].pure_slot = 2
    /\ \E k \in 1..Len(sequence_numbers) : sequence_numbers[k].pure_subset = 0

all_zero_or_all_positive(r) ==
    \/ r.pure_subset = 0 /\ r.pure_visit = 0 /\ r.pure_config = 0 /\ r.pure_slot = 0
    \/ r.pure_subset > 0 /\ r.pure_visit > 0 /\ r.pure_config > 0 /\ r.pure_slot > 0

\* C5: every assignment row and every slot row has pure_subset, pure_visit,
\* pure_config and pure_slot either all 0 or all > 0.
C5_TruncationExclusivity ==
    /\ \A k \in 1..Len(sequence_numbers) :
          all_zero_or_all_positive(sequence_numbers[k])
    /\ \A i \in DOMAIN slot : all_zero_or_all_positive(slot[i])

\* a pass truncated one row, kept another, and a slot is claimed
C5_Witness ==
    /\ Done
    /\ \E k \in 1..Len(sequence_numbers) : sequence_numbers[k].pure_subset = 0
    /\ kept_rows # {}
    /\ \E i \in DOMAIN slot : slot[i].pure_subset > 0

\* the call of the round trip scenario: always-true constraint, maxslot 2
RoundTripCall(c) ==
    /\ c.status = "done"
    /\ c.constraint = AlwaysTrue
    /\ c.maxslot = 2
    /\ c.maxconfig = DEFAULT_MAX

IsRoundTripTable ==
    /\ Len(slot) = Len(RoundTripTable)
    /\ \A i \in DOMAIN slot :
          /\ slot[i].visit_id = RoundTripTable[i].visit_id
          /\ slot[i].config_id = RoundTripTable[i].config_id

RoundTripPass1Values ==
    <<(<<1, 1, 1, 1>>), (<<1, 1, 1, 2>>), (<<0, 0, 0, 0>>),
      (<<1, 1, 2, 1>>), (<<1, 1, 2, 2>>), (<<0, 0, 0, 0>>)>>

RoundTripPass1 ==
    [i \in DOMAIN slot |-> allocation(slot[i])] = RoundTripPass1Values

RoundTripPass2 ==
    /\ \A i \in {1, 2, 4, 5} : allocation(slot[i]) = RoundTripPass1Values[i]
    /\ slot[3].pure_subset = 2
    /\ slot[6].pure_subset = 2

\* C6: on the round trip table, pass 1 claims S1,S2 (config 1, slots 1,2) and
\* S4,S5 (config 2, slots 1,2) and truncates S3,S6; pass 2 with the same call
\* claims S3 and S6 with index 2 and S1,S2,S4,S5 keep their pass-1 values.
C6_RoundTrip ==
    [][(IsRoundTripTable /\ RoundTripCall(call')) =>
          /\ pure_subset = 0 => RoundTripPass1'
          /\ (pure_subset = 1 /\ RoundTripCall(call)) => RoundTripPass2']_vars

\* C7: each slot_id occurs at most once in subset and has exactly one
\* assignment row.
C7_SubsetJoinKeys ==
    Done =>
        /\ \A a, b \in 1..Len(subset) :
              subset[a].slot_id = subset[b].slot_id => a = b
        /\ \A a, b \in 1..Len(sequence_numbers) :
              sequence_numbers[a].slot_id = sequence_numbers[b].slot_id => a = b

\* C8: compile(A OP B, T) for OP in {AND, OR} is compile(A, T) when
\* compile(B, T) is empty, compile(B, T) when compile(A, T) is empty,
\* "(<A> OP <B>)" when both are non-empty, and empty when both are empty.
C8_AndOrScoping ==
    compiled.op \in {"AND", "OR"} =>
        LET a == sql_from_constraint(lhs, compiled.only_table)
            b == sql_from_constraint(rhs, compiled.only_table)
        IN /\ (b = "" /\ a # "") => compiled.sql = a
           /\ (a = "" /\ b # "") => compiled.sql = b
           /\ (a # "" /\ b # "") =>
                 compiled.sql = "(" \o a \o " " \o compiled.op \o " " \o b \o ")"
           /\ (a = "" /\ b = "") => compiled.sql = ""

\* a scoped AND/OR whose one operand is out of scope and whose other
\* operand is a composite that is in scope
C8_Witness ==
    /\ compiled.op \in {"AND", "OR"}
    /\ compiled.only_table # ""
    /\ sql_from_constraint(rhs, compiled.only_table) = ""
    /\ lhs.kind = "logical"
    /\ compiled.sql # ""

\* the words of a clause: maximal runs without blank, parenthesis or comma
RECURSIVE words(_, _, _)
words(text, i, word) ==
    IF i > Len(text) THEN (IF word = "" THEN {} ELSE {word})
    ELSE LET ch == SubSeq(text, i, i)
         IN IF ch \in {" ", "(", ")", ","}
            THEN (IF word = "" THEN {} ELSE {word}) \cup words(text, i + 1, "")
            ELSE words(text, i + 1, word \o ch)

\* the qualified column names of a clause: its words that contain a dot
column_names(text) ==
    {w \in words(text, 1, "") : \E i \in 1..Len(w) : SubSeq(w, i, i) = "."}

\* C9: a clause compiled with only_table = T names only columns of T.
C9_ScopedNeverLeaks ==
    (compiled.op # "none" /\ compiled.only_table # "") =>
        \A name \in column_names(compiled.where) :
            startswith(name, compiled.only_table \o ".")

\* a scoped clause that is not empty although the tree has out-of-scope leaves
C9_Witness ==
    /\ compiled.op \in {"AND", "OR"}
    /\ compiled.only_table # ""
    /\ compiled.sql # ""
    /\ sql_from_constraint(lhs, compiled.only_table)
          # sql_from_constraint(lhs, "")
    /\ sql_from_constraint(rhs, compiled.only_table)
          # sql_from_constraint(rhs, "")

\* no row of the join of slot, config and visit satisfies the constraint
no_joined_row(tbl, cfg, vis, constraint) ==
    \A i \in DOMAIN tbl, cr \in cfg, vr \in vis :
        (join_config(tbl[i], cr) /\ join_visit(tbl[i], vr)) =>
            ~where_holds(parse_clause(constraint, ""),
                         joint_columns(tbl[i], cr, vr))

\* C10: a pass whose constraint matches no row completes with an empty
\* subset and no assignment row and leaves every slot row unchanged.
C10_EmptyMatch ==
    [][(/\ pure_subset' = pure_subset + 1
        /\ ~raises_TypeError(call'.constraint)
        /\ no_joined_row(slot, config', visit', call'.constraint)) =>
          /\ call'.status = "done"
          /\ subset' = <<>>
          /\ sequence_numbers' = <<>>
          /\ slot' = slot]_vars

\* a second pass matched nothing after the first pass had claimed a slot
C10_Witness ==
    /\ Done
    /\ pure_subset = 2
    /\ call.constraint = MatchesNothing
    /\ subset = <<>>
    /\ sequence_numbers = <<>>
    /\ \E i \in DOMAIN slot : slot[i].pure_subset = 1

\* a pass was made by this step
Pass == pure_subset' = pure_subset + 1

\* C11: a pass whose constraint holds a node of no predicate class fails, and
\* a pass that fails changes no slot row.
C11_NoPartialWrites ==
    [][Pass =>
          /\ call'.constraint = Malformed => call'.status = "TypeError"
          /\ call'.status = "TypeError" => slot' = slot]_vars

\* a pass failed after an earlier pass had claimed a slot
C11_Witness ==
    /\ call.status = "TypeError"
    /\ pure_subset = 2
    /\ \E i \in DOMAIN slot : slot[i].pure_subset = 1

\* C12: the subset index is 0 before the first call and every call adds one
\* to it; a slot a call claims carries the index of that call; every slot's
\* pure_subset lies between 0 and the number of calls made.
C12_SubsetIndex ==
    /\ pure_subset = 0
    /\ [][/\ Pass
          /\ \A i \in DOMAIN slot :
                (slot'[i] # slot[i] /\ slot'[i].pure_subset > 0) =>
                    slot'[i].pure_subset = pure_subset + 1]_vars
    /\ [](\A i \in DOMAIN slot : slot[i].pure_subset \in 0..pure_subset)

\* the second call claimed a slot and no slot carries the index of the first
C12_Witness ==
    /\ Done
    /\ pure_subset = 2
    /\ \E i \in DOMAIN slot : slot[i].pure_subset = 2
    /\ \A i \in DOMAIN slot : slot[i].pure_subset # 1
    /\ \E i \in DOMAIN slot : slot[i].pure_subset = 0

\* the slot table a completed pass leaves: the UPDATE applied to the table
\* before the pass with the tables the pass derived, each of them derived
\* from the table before the pass and the call's arguments alone
pass_result(tbl, index, constraint, maxslot, maxconfig, cfg, vis, sub, sn) ==
    IF /\ cfg = create_config(tbl,
                   parse_clause(__and__(constraint, available), "slot"))
       /\ vis = create_visit(cfg, parse_clause(constraint, "config"))
       /\ sub = select_subset(tbl, cfg, vis, parse_clause(constraint, ""), 1)
       /\ sn = _sequence_numbers(index, sub, maxslot, maxconfig)
    THEN update_slot(tbl, sub, sn)
    ELSE <<>>

Assigned == call.status = "assigned"

\* row k starts a run of rows with one visit_id / one (visit_id, config_id)
visit_start(rows, k) == k = 1 \/ rows[k].visit_id # rows[k - 1].visit_id
config_start(rows, k) ==
    visit_start(rows, k) \/ rows[k].config_id # rows[k - 1].config_id

\* the reference machine's counters at row k, counted over the rows before it
visit_seq(rows, k) == Cardinality({j \in 1..k : visit_start(rows, j)})
config_seq(rows, k) ==
    Cardinality({j \in 1..k :
        /\ config_start(rows, j)
        /\ \A m \in (j + 1)..k : ~visit_start(rows, m)})
slot_seq(rows, k) ==
    Cardinality({j \in 1..k : \A m \in (j + 1)..k : ~config_start(rows, m)})

\* C14: the assigner returns one row per input row, in order and with its
\* ids; the row is (0,0,0,0) iff config_seq > maxconfig or slot_seq > maxslot
\* and otherwise (subset index, visit_seq, config_seq, slot_seq), the
\* counters being those of the reference machine.
C14_AssignerTransitions ==
    Assigned =>
        /\ Len(sequence_numbers) = Len(subset)
        /\ \A k \in 1..Len(subset) :
              /\ sequence_numbers[k].visit_id = subset[k].visit_id
              /\ sequence_numbers[k].config_id = subset[k].config_id
              /\ sequence_numbers[k].slot_id = subset[k].slot_id
              /\ allocation(sequence_numbers[k]) =
                    IF \/ config_seq(subset, k) > call.maxconfig
                       \/ slot_seq(subset, k) > call.maxslot
                    THEN <<0, 0, 0, 0>>
                    ELSE <<pure_subset, visit_seq(subset, k),
                           config_seq(subset, k), slot_seq(subset, k)>>

\* three rows: the second is truncated by the slot cap, the third opens a
\* new visit and is kept
C14_Witness ==
    /\ Assigned
    /\ Len(subset) = 3
    /\ sequence_numbers[1].pure_subset > 0
    /\ sequence_numbers[2].pure_subset = 0
    /\ allocation(sequence_numbers[3]) = <<pure_subset, 2, 1, 1>>

\* rows k..m lie in one run of equal (visit_id, config_id) / equal visit_id
same_config_run(rows, k, m) == \A j \in (k + 1)..m : ~config_start(rows, j)
same_visit_run(rows, k, m) == \A j \in (k + 1)..m : ~visit_start(rows, j)

truncated(k) == allocation(sequence_numbers[k]) = <<0, 0, 0, 0>>

\* C15: after a row truncated by the slot cap every later row of its run of
\* equal (visit_id, config_id) is truncated, and after a row truncated by the
\* config cap every later row of its run of equal visit_id is truncated.
C15_TruncationPersists ==
    Assigned =>
        \A k, m \in 1..Len(subset) :
            k < m =>
                /\ (/\ slot_seq(subset, k) > call.maxslot
                    /\ truncated(k)
                    /\ same_config_run(subset, k, m)) => truncated(m)
                /\ (/\ config_seq(subset, k) > call.maxconfig
                    /\ truncated(k)
                    /\ same_visit_run(subset, k, m)) => truncated(m)

\* a row truncated by the config cap is followed in its visit run by a row
\* of a further config, which is truncated too
C15_Witness ==
    /\ Assigned
    /\ Len(subset) = 3
    /\ call.maxconfig = 1
    /\ call.maxslot = DEFAULT_MAX
    /\ same_visit_run(subset, 1, 3)
    /\ config_seq(subset, 3) = 3
    /\ ~truncated(1)
    /\ truncated(2)
    /\ truncated(3)

\* the first row of subset with slot_id i is past a cap of the last pass
past_cap(i) ==
    \E k \in 1..Len(subset) :
        /\ subset[k].slot_id = i
        /\ \A j \in 1..(k - 1) : subset[j].slot_id # i
        /\ \/ config_seq(subset, k) > call.maxconfig
           \/ slot_seq(subset, k) > call.maxslot

\* the available slots of the config of slot i that satisfy the slot-scoped
\* clause of the constraint
available_in_config(i, constraint) ==
    {j \in DOMAIN slot :
        /\ slot[j].visit_id = slot[i].visit_id
        /\ slot[j].config_id = slot[i].config_id
        /\ slot[j].pure_subset = 0
        /\ where_holds(parse_clause(constraint, "slot"), slot_columns(slot[j]))}

\* C16: a slot of the subset that a cap truncated has all four allocation
\* fields 0 after the pass, and the next pass counts it in the nslot of its
\* config row if it satisfies that pass's slot-scoped clause.
C16_TruncatedStayEligible ==
    /\ [](Done => \A i \in DOMAIN slot :
                      past_cap(i) => allocation(slot[i]) = <<0, 0, 0, 0>>)
    /\ [][(Done /\ Pass /\ call'.status = "done") =>
            \A i \in DOMAIN slot :
                (past_cap(i) /\ i \in available_in_config(i, call'.constraint)) =>
                    \E cr \in config' :
                        /\ cr.visit_id = slot[i].visit_id
                        /\ cr.config_id = slot[i].config_id
                        /\ cr.nslot =
                              Cardinality(available_in_config(i, call'.constraint))
           ]_vars

\* a pass claimed one slot of a config and truncated another one, which is
\* left with all fields 0 while further passes can follow
C16_Witness ==
    /\ Done
    /\ pure_subset < MaxPass
    /\ \E i, j \in DOMAIN slot :
          /\ past_cap(i)
          /\ allocation(slot[i]) = <<0, 0, 0, 0>>
          /\ slot[j].pure_subset = pure_subset
          /\ slot[j].visit_id = slot[i].visit_id
          /\ slot[j].config_id = slot[i].config_id

\* C17: compile(NOT X, T) is empty when compile(X, T) is empty and
\* "(NOT <compile(X, T)>)" otherwise; where_clause puts WHERE before a
\* clause that is not empty and returns the empty string otherwise.
C17_NotScoping ==
    /\ compiled.op = "NOT" =>
          LET x == sql_from_constraint(lhs, compiled.only_table)
          IN /\ x = "" => compiled.sql = ""
             /\ x # "" => compiled.sql = "(NOT " \o x \o ")"
    /\ compiled.op # "none" =>
          /\ compiled.sql = "" => compiled.where = ""
          /\ compiled.sql # "" => compiled.where = "WHERE " \o compiled.sql

\* NOT of a composite whose leaves are all out of scope: nothing is compiled
C17_Witness ==
    /\ compiled.op = "NOT"
    /\ compiled.only_table # ""
    /\ lhs.kind = "logical"
    /\ sql_from_constraint(lhs, "") # ""
    /\ compiled.sql = ""
    /\ compiled.where = ""

\* C18: a joined (slot, config, visit) row of a pass that satisfies the
\* unscoped clause of the constraint satisfies the clause scoped to slot and
\* the clause scoped to config.
C18_ScopingOnlyWeakens ==
    Done =>
        \A i \in DOMAIN slot, cr \in config, vr \in visit :
            (/\ join_config(slot[i], cr)
             /\ join_visit(slot[i], vr)
             /\ where_holds(parse_clause(call.constraint, ""),
                            joint_columns(slot[i], cr, vr))) =>
                \A T \in {"slot", "config"} :
                    where_holds(parse_clause(call.constraint, T),
                                joint_columns(slot[i], cr, vr))

sequence_triple(r) == <<r.pure_visit, r.pure_config, r.pure_slot>>

\* C19: whatever the order of the rows, no two rows of different slots that
\* the assigner stamps with the pass's index carry the same
\* (pure_visit, pure_config, pure_slot).
C19_UniqueSequenceTriple ==
    Assigned =>
        \A k, m \in 1..Len(sequence_numbers) :
            (/\ k # m
             /\ sequence_numbers[k].slot_id # sequence_numbers[m].slot_id
             /\ sequence_numbers[k].pure_subset = pure_subset
             /\ sequence_numbers[m].pure_subset = pure_subset) =>
                sequence_triple(sequence_numbers[k])
                    # sequence_triple(sequence_numbers[m])

\* rows of two slots alternate between two configs of one visit and all of
\* them are stamped
C19_Witness ==
    /\ Assigned
    /\ Len(subset) = 3
    /\ subset[1].slot_id # subset[2].slot_id
    /\ subset[1].visit_id = subset[2].visit_id
    /\ subset[1].visit_id = subset[3].visit_id
    /\ subset[1].config_id # subset[2].config_id
    /\ subset[1].config_id = subset[3].config_id
    /\ \A k \in 1..3 : sequence_numbers[k].pure_subset = pure_subset

\* C20: among the slots a pass claims, slots of one visit_id have the same
\* pure_visit, slots of one (visit_id, config_id) have the same pure_config,
\* and slots of different visit_ids have different pure_visit.
C20_ConsistentGroupNumbers ==
    Done =>
        \A i, j \in DOMAIN slot :
            (stamped(i) /\ stamped(j)) =>
                /\ slot[i].visit_id = slot[j].visit_id =>
                      slot[i].pure_visit = slot[j].pure_visit
                /\ (/\ slot[i].visit_id = slot[j].visit_id
                    /\ slot[i].config_id = slot[j].config_id) =>
                      slot[i].pure_config = slot[j].pure_config
                /\ slot[i].visit_id # slot[j].visit_id =>
                      slot[i].pure_visit # slot[j].pure_visit

\* C21: a call that fails while its constraint is compiled leaves the subset
\* index as it was before the call.
C21_FailedPassKeepsIndex ==
    [][call'.status = "TypeError" => pure_subset' = pure_subset]_vars

====
